---- MODULE Spec2Model ----
(***************************************************************************)
(* Model of xelis-vanity (src/src/main.rs): the main function that         *)
(* validates the configuration and spawns the search threads, the          *)
(* search_for loop run by every thread, and the prompt closure that        *)
(* samples RATE_COUNTER.                                                   *)
(*                                                                         *)
(* Strings are sequences of one-character strings.  A panic in a spawned   *)
(* thread unwinds that thread only (the default panic strategy; the        *)
(* source sets no other), and main returning ends the process.             *)
(***************************************************************************)
EXTENDS Integers, Sequences, FiniteSets, TLC

\* ------------------------------------------------------------------ bounds
\* Keypairs generated by all search threads together.
MaxIters == 2

\* --------------------------------------------------- imported constants
\* xelis_common::crypto::bech32::CHARSET
CHARSET ==
    << "q", "p", "z", "r", "y", "9", "x", "8", "g", "f", "2", "t", "v", "d", "w", "0",
       "s", "3", "j", "n", "5", "4", "k", "h", "c", "e", "6", "m", "u", "a", "7", "l" >>
\* xelis_common::crypto::bech32::SEPARATOR
SEPARATOR == ":"
\* xelis_common::config::PREFIX_ADDRESS
PREFIX_ADDRESS == << "x", "e", "l" >>
\* Number of word lists known to xelis_wallet::mnemonics.
LANGUAGES_LEN == 11
\* The largest thread count the help text of --num-threads allows.
MAX_THREADS == 65535

\* ------------------------------------------------------------ input sets
\* The content strings given on the command line: the empty one, one made of a
\* charset character, and some with an upper case letter or a lower case
\* letter that bech32 leaves out, in each order.
Contents ==
    { << >>, << "q" >>, << "Q" >>, << "q", "b" >>, << "b", "q" >>,
      << "Q", "b" >>, << "b", "Q" >>, << "q", "Q", "b" >> }

Placements == { "Prefix", "Suffix", "Anywhere" }

\* A supported and an unsupported language index.
LanguageInputs == { 0, 999 }

\* Option<usize>: None is written -1, Some(n) is written n.
None == -1
\* --num-threads absent, 0 and 1.
ThreadInputs == { None, 0, 1 }

\* Results of thread::available_parallelism(): an error or a non-zero count.
\* Err is written 0, Ok(n) is written n.
DetectErr == 0
DetectResults == { DetectErr, 2 }

\* The keypairs KeyPair::new() may return: a private key and the bech32 data
\* part its public key encodes to.
KeyPairs ==
    { [private_key |-> 27, public_key |-> << "q", "p" >>],
      [private_key |-> 164, public_key |-> << "p", "q" >>],
      [private_key |-> 240, public_key |-> << "p", "p" >>] }

NoKeyPair == [private_key |-> -1, public_key |-> << >>]

Configs ==
    [content : Contents, language : LanguageInputs,
     num_threads : ThreadInputs, placement : Placements]

VARIABLES
    config,             \* Config::parse()
    mainpc,             \* position of main
    detected_threads,   \* main's local
    threads,            \* main's local
    prefix,             \* main's local
    i,                  \* loop variable of the spawn loop
    workers,            \* the spawned threads, in spawn order
    log,                \* lines handed to the logger, in order
    RATE_COUNTER,       \* the shared AtomicUsize
    locked,             \* RATE_LAST_TIME's mutex is held
    sppc,               \* position of each call of the prompt closure
    counter,            \* each call's local `counter`
    snapshot_total,     \* sum of the values the closure's swap returned
    increments,         \* fetch_add calls performed by all threads
    now,                \* the monotonic clock, in milliseconds
    last_time,          \* the Instant inside RATE_LAST_TIME
    sample              \* the latest call's counter, elapsed time and hashrate

vars ==
    << config, mainpc, detected_threads, threads, prefix, i, workers, log,
       RATE_COUNTER, locked, sppc, counter, snapshot_total, increments,
       now, last_time, sample >>

mainVars == << config, mainpc, detected_threads, threads, prefix, i >>
timeVars == << now, last_time, sample >>
rateVars ==
    << RATE_COUNTER, locked, sppc, counter, snapshot_total, increments, timeVars >>

\* ---------------------------------------------------------------- helpers
\* A log line: its level, its format string (kind) and its arguments; `by` is the
\* thread that logged it (its place in `workers`, MainThread for main), which
\* the text does not show.
MainThread == 0
Line(level, kind, by, arg) ==
    [level |-> level, kind |-> kind, by |-> by, arg |-> arg]

\* CHARSET.chars().any(|v| v == c)
InCharset(c) == \E k \in 1..Len(CHARSET) : CHARSET[k] = c

\* The loop over config.content.chars(): << c >> for the character the loop
\* returns on, << >> when the loop runs to its end.
RECURSIVE ScanContent_Last(_)
ScanContent_Last(s) ==
    IF s = << >> THEN << >>
    ELSE IF ScanContent_Last(Tail(s)) # << >> THEN ScanContent_Last(Tail(s))
    ELSE IF ~InCharset(Head(s)) THEN << Head(s) >>
    ELSE << >>

RECURSIVE ScanContent(_)
ScanContent(s) ==
    IF s = << >> THEN << >>
    ELSE IF ~InCharset(Head(s)) THEN << Head(s) >>
    ELSE ScanContent(Tail(s))

\* Placement::to_string
Placement_to_string(p) ==
    CASE p = "Prefix" -> "prefix"
      [] p = "Suffix" -> "suffix"
      [] p = "Anywhere" -> "anywhere"

\* str::starts_with, str::ends_with, str::contains
StartsWith(a, s) == Len(s) <= Len(a) /\ SubSeq(a, 1, Len(s)) = s
EndsWith(a, s) == Len(s) <= Len(a) /\ SubSeq(a, Len(a) - Len(s) + 1, Len(a)) = s
Contains(a, s) == \E k \in 0..(Len(a) - Len(s)) : SubSeq(a, k + 1, k + Len(s)) = s

\* The `valid` match expression of search_for.
Matches_Swapped(placement, address, content) ==
    CASE placement = "Prefix" -> StartsWith(address, content)
      [] placement = "Suffix" -> Contains(address, content)
      [] placement = "Anywhere" -> EndsWith(address, content)

Matches(placement, address, content) ==
    CASE placement = "Prefix" -> StartsWith(address, content)
      [] placement = "Suffix" -> EndsWith(address, content)
      [] placement = "Anywhere" -> Contains(address, content)

\* keypair.get_public_key().to_address(true).to_string()
ToAddress(keypair) == PREFIX_ADDRESS \o << SEPARATOR >> \o keypair.public_key

\* PrivateKey::to_hex, on one byte.
HexDigits ==
    << "0", "1", "2", "3", "4", "5", "6", "7", "8", "9", "a", "b", "c", "d", "e", "f" >>
ToHex(n) == << HexDigits[(n \div 16) + 1], HexDigits[(n % 16) + 1] >>

\* mnemonics::key_to_words: Err for a language index outside the word lists.
KeyToWords(private_key, language) ==
    IF language < LANGUAGES_LEN
    THEN [ok |-> TRUE, words |-> << language, private_key >>]
    ELSE [ok |-> FALSE, words |-> << >>]

ProcessAlive == mainpc \notin { "failed", "returned" }

\* The calls the prompt makes of the closure, in the order they start; a later
\* call may start before an earlier one has returned.
Callers == { 1, 2 }

\* Milliseconds that pass between two readings of the clock.
Delays == { 0, 2000 }

\* RATE_LAST_TIME before its lazy initialisation.
NotInit == -1

\* f64 values that are not negative: a fraction in lowest terms, infinity or NaN.
RECURSIVE GCD(_, _)
GCD(a, b) == IF b = 0 THEN a ELSE GCD(b, a % b)
NaN == [kind |-> "nan", num |-> 0, den |-> 0]
Infinity == [kind |-> "inf", num |-> 1, den |-> 0]
Fraction(n, d) == [kind |-> "finite", num |-> n \div GCD(n, d), den |-> d \div GCD(n, d)]
\* `x as f64`
F64(n) == Fraction(n, 1)
\* The division of two f64 values (IEEE 754).
FDiv(a, b) ==
    IF a.kind = "nan" \/ b.kind = "nan" THEN NaN
    ELSE IF a.kind = "inf" THEN (IF b.kind = "inf" THEN NaN ELSE Infinity)
    ELSE IF b.kind = "inf" THEN F64(0)
    ELSE IF b.num = 0 THEN (IF a.num = 0 THEN NaN ELSE Infinity)
    ELSE Fraction(a.num * b.den, a.den * b.num)

\* Line 185.
Hashrate_PerMilli(elapsed_ms, count) == FDiv(F64(1), FDiv(F64(elapsed_ms), F64(count)))

Hashrate(elapsed_ms, count) == FDiv(F64(1000), FDiv(F64(elapsed_ms), F64(count)))

NoSample == [counter |-> 0, elapsed |-> 0, hashrate |-> F64(0), at |-> NotInit]

\* ------------------------------------------------------------------- Init
InitLocals ==
    /\ mainpc = "prompt_new"
    /\ detected_threads = 0
    /\ threads = 0
    /\ prefix = << >>
    /\ i = 0
    /\ workers = << >>
    /\ log = << >>
    /\ RATE_COUNTER = 0
    /\ locked = FALSE
    /\ sppc = [c \in Callers |-> "idle"]
    /\ counter = [c \in Callers |-> 0]
    /\ snapshot_total = 0
    /\ increments = 0
    /\ now = 0
    /\ last_time = NotInit
    /\ sample = NoSample

Init ==
    /\ config \in Configs
    /\ InitLocals

\* ------------------------------------------------------------------- main
\* Prompt::new fails or succeeds (lines 97-103).
PromptNew ==
    /\ mainpc = "prompt_new"
    /\ \E ok \in BOOLEAN :
        IF ok
        THEN /\ mainpc' = "check_empty"
             /\ log' = log
        ELSE /\ mainpc' = "failed"
             /\ log' = Append(log, Line("error", "PromptInit", MainThread, << >>))
    /\ UNCHANGED << config, detected_threads, threads, prefix, i, workers >>
    /\ UNCHANGED rateVars

\* Lines 106-109.
CheckEmpty_NoReturn ==
    /\ mainpc = "check_empty"
    /\ mainpc' = "check_chars"
    /\ log' = IF config.content = << >>
              THEN Append(log, Line("error", "EmptyPrefix", MainThread, << >>))
              ELSE log
    /\ UNCHANGED << config, detected_threads, threads, prefix, i, workers >>
    /\ UNCHANGED rateVars

CheckEmpty ==
    /\ mainpc = "check_empty"
    /\ IF config.content = << >>
       THEN /\ mainpc' = "failed"
            /\ log' = Append(log, Line("error", "EmptyPrefix", MainThread, << >>))
       ELSE /\ mainpc' = "check_chars"
            /\ log' = log
    /\ UNCHANGED << config, detected_threads, threads, prefix, i, workers >>
    /\ UNCHANGED rateVars

\* Lines 112-117.
CheckChars ==
    /\ mainpc = "check_chars"
    /\ IF ScanContent(config.content) # << >>
       THEN /\ mainpc' = "failed"
            /\ log' = Append(log, Line("error", "InvalidCharacter", MainThread,
                                       ScanContent(config.content)))
       ELSE /\ mainpc' = "detect"
            /\ log' = log
    /\ UNCHANGED << config, detected_threads, threads, prefix, i, workers >>
    /\ UNCHANGED rateVars

DetectThreads_FallbackZero ==
    /\ mainpc = "detect"
    /\ \E r \in DetectResults :
        IF r = DetectErr
        THEN /\ detected_threads' = 0
             /\ log' = Append(log, Line("warn", "DetectFailed", MainThread, << >>))
        ELSE /\ detected_threads' = r
             /\ log' = log
    /\ mainpc' = "resolve"
    /\ UNCHANGED << config, threads, prefix, i, workers >>
    /\ UNCHANGED rateVars

\* Lines 119-125.
DetectThreads ==
    /\ mainpc = "detect"
    /\ \E r \in DetectResults :
        IF r = DetectErr
        THEN /\ detected_threads' = 1
             /\ log' = Append(log, Line("warn", "DetectFailed", MainThread, << >>))
        ELSE /\ detected_threads' = r
             /\ log' = log
    /\ mainpc' = "resolve"
    /\ UNCHANGED << config, threads, prefix, i, workers >>
    /\ UNCHANGED rateVars

\* Lines 127-135.
ResolveThreads ==
    /\ mainpc = "resolve"
    /\ threads' = IF config.num_threads = None THEN detected_threads
                  ELSE config.num_threads
    /\ IF threads' < 1
       THEN /\ mainpc' = "failed"
            /\ log' = Append(log, Line("error", "ThreadCount", MainThread, << >>))
       ELSE /\ mainpc' = "compose"
            /\ log' = log
    /\ UNCHANGED << config, detected_threads, prefix, i, workers >>
    /\ UNCHANGED rateVars

ComposePrefix_NoSeparator ==
    /\ mainpc = "compose"
    /\ log' = log \o
              << Line("info", "TotalThreads", MainThread, << threads, detected_threads >>),
                 Line("info", "Searching", MainThread,
                      << config.content, Placement_to_string(config.placement) >>) >>
    /\ prefix' = IF config.placement = "Prefix"
                 THEN PREFIX_ADDRESS \o config.content
                 ELSE config.content
    /\ i' = 0
    /\ mainpc' = "spawn"
    /\ UNCHANGED << config, detected_threads, threads, workers >>
    /\ UNCHANGED rateVars

\* Lines 137-143.
ComposePrefix ==
    /\ mainpc = "compose"
    /\ log' = log \o
              << Line("info", "TotalThreads", MainThread, << threads, detected_threads >>),
                 Line("info", "Searching", MainThread,
                      << config.content, Placement_to_string(config.placement) >>) >>
    /\ prefix' = IF config.placement = "Prefix"
                 THEN PREFIX_ADDRESS \o << SEPARATOR >> \o config.content
                 ELSE config.content
    /\ i' = 0
    /\ mainpc' = "spawn"
    /\ UNCHANGED << config, detected_threads, threads, workers >>
    /\ UNCHANGED rateVars

\* The arguments and the locals of one search_for call, at the top of its loop.
\* iters, incs and found count the keypairs the thread generated, its fetch_add
\* calls and its iterations with valid = true.
NewWorker(content, placement, language, thread) ==
    [content |-> content, placement |-> placement, language |-> language,
     thread |-> thread, pc |-> "Generating", keypair |-> NoKeyPair,
     address |-> << >>, valid |-> FALSE, iters |-> 0, incs |-> 0, found |-> 0]

\* One pass of the loop at lines 145-149.
Spawn_SameId ==
    /\ mainpc = "spawn"
    /\ i < threads
    /\ workers' = Append(workers,
                         NewWorker(prefix, config.placement, config.language, 0))
    /\ i' = i + 1
    /\ UNCHANGED << config, mainpc, detected_threads, threads, prefix, log >>
    /\ UNCHANGED rateVars

Spawn ==
    /\ mainpc = "spawn"
    /\ i < threads
    /\ workers' = Append(workers,
                         NewWorker(prefix, config.placement, config.language, i))
    /\ i' = i + 1
    /\ UNCHANGED << config, mainpc, detected_threads, threads, prefix, log >>
    /\ UNCHANGED rateVars

\* The loop at lines 145-149 ends; main calls run_prompt (line 151).
SpawnDone ==
    /\ mainpc = "spawn"
    /\ i >= threads
    /\ mainpc' = "run_prompt"
    /\ UNCHANGED << config, detected_threads, threads, prefix, i, workers, log >>
    /\ UNCHANGED rateVars

\* prompt.start returns, main logs an error result and returns (lines 151-154):
\* the process ends and its threads with it.
PromptReturn ==
    /\ mainpc = "run_prompt"
    /\ \A c \in Callers : sppc[c] \in { "idle", "done" }
    /\ \E ok \in BOOLEAN :
        log' = IF ok THEN log
               ELSE Append(log, Line("error", "PromptRun", MainThread, << >>))
    /\ mainpc' = "returned"
    /\ workers' = << >>
    /\ UNCHANGED << config, detected_threads, threads, prefix, i >>
    /\ UNCHANGED rateVars

\* ------------------------------------------------------------- search_for
SetWorker(k, w) == workers' = [workers EXCEPT ![k] = w]

RECURSIVE Generated(_)
Generated(ws) == IF ws = << >> THEN 0 ELSE Head(ws).iters + Generated(Tail(ws))

Generate_StopOnFound(k) ==
    /\ ProcessAlive
    /\ workers[k].pc = "Generating"
    /\ Generated(workers) < MaxIters
    /\ \A j \in DOMAIN workers : workers[j].found = 0
    /\ \E kp \in KeyPairs :
        LET address == ToAddress(kp)
            valid == Matches(workers[k].placement, address, workers[k].content)
        IN  SetWorker(k, [workers[k] EXCEPT
                !.keypair = kp, !.address = address, !.valid = valid,
                !.iters = @ + 1,
                !.found = IF valid THEN @ + 1 ELSE @,
                !.pc = IF valid THEN "ReportFound" ELSE "Increment"])
    /\ UNCHANGED << mainVars, log, rateVars >>

\* Lines 158-169: a fresh keypair, its address, the match test and the branch.
Generate(k) ==
    /\ ProcessAlive
    /\ workers[k].pc = "Generating"
    /\ Generated(workers) < MaxIters
    /\ \E kp \in KeyPairs :
        LET address == ToAddress(kp)
            valid == Matches(workers[k].placement, address, workers[k].content)
        IN  SetWorker(k, [workers[k] EXCEPT
                !.keypair = kp, !.address = address, !.valid = valid,
                !.iters = @ + 1,
                !.found = IF valid THEN @ + 1 ELSE @,
                !.pc = IF valid THEN "ReportFound" ELSE "Increment"])
    /\ UNCHANGED << mainVars, log, rateVars >>

ReportFound_Silent(k) ==
    /\ ProcessAlive
    /\ workers[k].pc = "ReportFound"
    /\ log' = log
    /\ SetWorker(k, [workers[k] EXCEPT !.pc = "ReportKey"])
    /\ UNCHANGED << mainVars, rateVars >>

\* Line 170.
ReportFound(k) ==
    /\ ProcessAlive
    /\ workers[k].pc = "ReportFound"
    /\ log' = Append(log, Line("info", "Found", k,
                              << workers[k].thread, workers[k].address >>))
    /\ SetWorker(k, [workers[k] EXCEPT !.pc = "ReportKey"])
    /\ UNCHANGED << mainVars, rateVars >>

\* Line 171.
ReportKey(k) ==
    /\ ProcessAlive
    /\ workers[k].pc = "ReportKey"
    /\ log' = Append(log, Line("info", "PrivateKey", k,
                              << ToHex(workers[k].keypair.private_key) >>))
    /\ SetWorker(k, [workers[k] EXCEPT !.pc = "ReportSeed"])
    /\ UNCHANGED << mainVars, rateVars >>

\* Line 172: unwrap() panics on Err and the thread unwinds.
ReportSeed(k) ==
    /\ ProcessAlive
    /\ workers[k].pc = "ReportSeed"
    /\ LET r == KeyToWords(workers[k].keypair.private_key, workers[k].language)
       IN  IF r.ok
           THEN /\ log' = Append(log, Line("info", "Seed", k, << r.words >>))
                /\ SetWorker(k, [workers[k] EXCEPT !.pc = "Increment"])
           ELSE /\ log' = log
                /\ SetWorker(k, [workers[k] EXCEPT !.pc = "Terminated"])
    /\ UNCHANGED << mainVars, rateVars >>

Increment_TouchTime(k) ==
    /\ ProcessAlive
    /\ workers[k].pc = "Increment"
    /\ RATE_COUNTER' = RATE_COUNTER + 1
    /\ increments' = increments + 1
    /\ last_time' = now
    /\ SetWorker(k, [workers[k] EXCEPT
            !.incs = @ + 1, !.pc = "Generating",
            !.keypair = NoKeyPair, !.address = << >>, !.valid = FALSE])
    /\ UNCHANGED << mainVars, log, locked, sppc, counter, snapshot_total, now, sample >>

Increment_StopAfterMatch(k) ==
    /\ ProcessAlive
    /\ workers[k].pc = "Increment"
    /\ RATE_COUNTER' = RATE_COUNTER + 1
    /\ increments' = increments + 1
    /\ SetWorker(k, [workers[k] EXCEPT
            !.incs = @ + 1,
            !.pc = IF workers[k].valid THEN "Terminated" ELSE "Generating",
            !.keypair = NoKeyPair, !.address = << >>, !.valid = FALSE])
    /\ UNCHANGED << mainVars, log, locked, sppc, counter, snapshot_total,
                    timeVars >>

\* Lines 175-176: the counter is bumped and the iteration's locals are dropped.
Increment(k) ==
    /\ ProcessAlive
    /\ workers[k].pc = "Increment"
    /\ RATE_COUNTER' = RATE_COUNTER + 1
    /\ increments' = increments + 1
    /\ SetWorker(k, [workers[k] EXCEPT
            !.incs = @ + 1, !.pc = "Generating",
            !.keypair = NoKeyPair, !.address = << >>, !.valid = FALSE])
    /\ UNCHANGED << mainVars, log, locked, sppc, counter, snapshot_total,
                    timeVars >>

WorkerStep(k) ==
    \/ Generate(k)
    \/ ReportFound(k)
    \/ ReportKey(k)
    \/ ReportSeed(k)
    \/ Increment(k)

\* ------------------------------------------------- run_prompt's closure
\* Line 182, up to the await: the prompt calls the closure; the first use of
\* RATE_LAST_TIME runs its initialiser (line 91) and the call asks for the
\* mutex.
SnapCall(c) ==
    /\ mainpc = "run_prompt"
    /\ sppc[c] = "idle"
    /\ \A b \in Callers : b < c => sppc[b] # "idle"
    /\ last_time' = IF last_time = NotInit THEN now ELSE last_time
    /\ sppc' = [sppc EXCEPT ![c] = "waiting"]
    /\ UNCHANGED << mainVars, workers, log, RATE_COUNTER, locked, counter,
                    snapshot_total, increments, now, sample >>

\* Line 182, after the await: the mutex is free and the call gets it.
SnapLock_NoMutex(c) ==
    /\ mainpc = "run_prompt"
    /\ sppc[c] = "waiting"
    /\ locked' = TRUE
    /\ sppc' = [sppc EXCEPT ![c] = "locked"]
    /\ UNCHANGED << mainVars, workers, log, RATE_COUNTER, counter, snapshot_total, increments, timeVars >>

SnapLock(c) ==
    /\ mainpc = "run_prompt"
    /\ sppc[c] = "waiting"
    /\ ~locked
    /\ locked' = TRUE
    /\ sppc' = [sppc EXCEPT ![c] = "locked"]
    /\ UNCHANGED << mainVars, workers, log, RATE_COUNTER, counter, snapshot_total, increments, timeVars >>

SnapSwap_NoReset(c) ==
    /\ mainpc = "run_prompt"
    /\ sppc[c] = "locked"
    /\ counter' = [counter EXCEPT ![c] = RATE_COUNTER]
    /\ RATE_COUNTER' = RATE_COUNTER
    /\ snapshot_total' = snapshot_total + RATE_COUNTER
    /\ sppc' = [sppc EXCEPT ![c] = "swapped"]
    /\ UNCHANGED << mainVars, workers, log, locked, increments, timeVars >>

\* Line 183.
SnapSwap(c) ==
    /\ mainpc = "run_prompt"
    /\ sppc[c] = "locked"
    /\ counter' = [counter EXCEPT ![c] = RATE_COUNTER]
    /\ RATE_COUNTER' = 0
    /\ snapshot_total' = snapshot_total + RATE_COUNTER
    /\ sppc' = [sppc EXCEPT ![c] = "swapped"]
    /\ UNCHANGED << mainVars, workers, log, locked, increments, timeVars >>

\* Lines 185-198: the clock is read, the rate is computed from the elapsed
\* milliseconds and handed to format_hashrate, the time is stored and the
\* guard is dropped.  Time passes before the clock is read.
SnapRate_KeepTime(c) ==
    /\ mainpc = "run_prompt"
    /\ sppc[c] = "swapped"
    /\ \E d \in Delays :
        /\ now' = now + d
        /\ sample' = [counter |-> counter[c], elapsed |-> now' - last_time,
                      hashrate |-> Hashrate(now' - last_time, counter[c]),
                      at |-> now']
    /\ last_time' = last_time
    /\ counter' = [counter EXCEPT ![c] = 0]
    /\ locked' = FALSE
    /\ sppc' = [sppc EXCEPT ![c] = "done"]
    /\ UNCHANGED << mainVars, workers, log, RATE_COUNTER, snapshot_total,
                    increments >>

SnapRate(c) ==
    /\ mainpc = "run_prompt"
    /\ sppc[c] = "swapped"
    /\ \E d \in Delays :
        /\ now' = now + d
        /\ sample' = [counter |-> counter[c], elapsed |-> now' - last_time,
                      hashrate |-> Hashrate(now' - last_time, counter[c]),
                      at |-> now']
    /\ last_time' = now'
    /\ counter' = [counter EXCEPT ![c] = 0]
    /\ locked' = FALSE
    /\ sppc' = [sppc EXCEPT ![c] = "done"]
    /\ UNCHANGED << mainVars, workers, log, RATE_COUNTER, snapshot_total,
                    increments >>

SnapStep(c) ==
    \/ SnapCall(c)
    \/ SnapLock(c)
    \/ SnapSwap(c)
    \/ SnapRate(c)

\* ------------------------------------------------------------------- Next
Next ==
    \/ PromptNew
    \/ CheckEmpty
    \/ CheckChars
    \/ DetectThreads
    \/ ResolveThreads
    \/ ComposePrefix
    \/ Spawn
    \/ SpawnDone
    \/ PromptReturn
    \/ \E k \in DOMAIN workers : WorkerStep(k)
    \/ \E c \in Callers : SnapStep(c)

Spec == Init /\ [][Next]_vars

\* main up to its spawn loop, for thread counts around the documented maximum
\* as well.
StartupThreadInputs == ThreadInputs \cup { MAX_THREADS, MAX_THREADS + 1 }

InitStartup ==
    /\ config \in [content : Contents, language : LanguageInputs,
                    num_threads : StartupThreadInputs, placement : Placements]
    /\ InitLocals

NextStartup ==
    \/ PromptNew
    \/ CheckEmpty
    \/ CheckChars
    \/ DetectThreads
    \/ ResolveThreads
    \/ ComposePrefix

SpecStartup == InitStartup /\ [][NextStartup]_vars

\* ========================================================== properties
Live == DOMAIN workers

CharsetSet == { CHARSET[n] : n \in 1..Len(CHARSET) }

Errors == SelectSeq(log, LAMBDA l : l.level = "error")

HasLine(kind) == \E n \in 1..Len(log) : log[n].kind = kind

Supported(language) == language \in 0..(LANGUAGES_LEN - 1)

\* The defining relations of the three placements, character by character.
IsPrefix(a, s) == Len(s) <= Len(a) /\ \A n \in 1..Len(s) : a[n] = s[n]
IsSuffix(a, s) ==
    Len(s) <= Len(a) /\ \A n \in 1..Len(s) : a[Len(a) - Len(s) + n] = s[n]
IsSubstring(a, s) ==
    \E off \in 0..(Len(a) - Len(s)) : \A n \in 1..Len(s) : a[off + n] = s[n]
Relation(placement, a, s) ==
    \/ placement = "Prefix" /\ IsPrefix(a, s)
    \/ placement = "Suffix" /\ IsSuffix(a, s)
    \/ placement = "Anywhere" /\ IsSubstring(a, s)

\* The "found" and "private key" lines one thread logged, in order.
ReportsBy(k) ==
    SelectSeq(log, LAMBDA l : l.by = k /\ l.kind \in { "Found", "PrivateKey" })

\* C1: a thread whose iteration matches and whose mnemonic encoding fails for
\* the configured language index still reports the match with the private key
\* and the words marked absent, does not terminate, and goes on iterating: no
\* thread is ever terminated, and a thread past the seed line of a match has
\* logged a seed line or a note that the words are absent.
C1_WorkerSurvivesMnemonicFailure ==
    \A k \in Live :
        /\ workers[k].pc # "Terminated"
        /\ (workers[k].valid /\ workers[k].pc = "Increment"
                /\ ~Supported(workers[k].language))
            => \E n \in 1..Len(log) :
                    log[n].by = k /\ log[n].kind \in { "Seed", "SeedAbsent" }

\* C2: every iteration adds exactly 1 to the shared counter, whether or not it
\* matches and whether or not the mnemonic encoding succeeds: a thread that is
\* between iterations, or has ended, has made as many increments as it
\* generated keypairs, and a thread inside an iteration one less.
C2_OneIncrementPerIteration ==
    \A k \in Live :
        IF workers[k].pc \in { "Generating", "Terminated" }
        THEN workers[k].incs = workers[k].iters
        ELSE workers[k].incs = workers[k].iters - 1

\* C3: a fatal startup failure (prompt initialisation, empty content, a
\* character outside the alphabet, a thread count of 0) logs exactly one
\* error, also when several of the conditions hold, and no thread is ever
\* spawned; a configuration with one of the faults never gets a thread.
BadConfig ==
    \/ config.content = << >>
    \/ \E n \in 1..Len(config.content) : config.content[n] \notin CharsetSet
    \/ config.num_threads = 0

C3_StartupFailureLogsOneError ==
    /\ mainpc = "failed" => Len(Errors) = 1 /\ workers = << >> /\ i = 0
    /\ BadConfig => workers = << >> /\ mainpc \notin { "spawn", "run_prompt", "returned" }
    /\ (BadConfig /\ mainpc \notin { "prompt_new", "check_empty", "check_chars",
                                    "detect", "resolve" })
        => mainpc = "failed"

C3_Witness ==
    /\ mainpc = "failed"
    /\ config.content = << "Q", "b" >>
    /\ config.num_threads = 0
    /\ HasLine("InvalidCharacter")

\* C4: for a non-empty content with a character outside the alphabet, startup
\* (once the prompt is up) fails with an invalid-character error naming the
\* first character of the content that is outside the alphabet, and the error
\* never names a character of the alphabet.
C4_InvalidCharacterNamed ==
    /\ \A n \in 1..Len(log) :
        log[n].kind = "InvalidCharacter" =>
            /\ Len(log[n].arg) = 1
            /\ log[n].arg[1] \notin CharsetSet
            /\ \E m \in 1..Len(config.content) :
                /\ config.content[m] = log[n].arg[1]
                /\ \A j \in 1..(m - 1) : config.content[j] \in CharsetSet
    /\ ( /\ \E m \in 1..Len(config.content) : config.content[m] \notin CharsetSet
         /\ mainpc \notin { "prompt_new", "check_empty", "check_chars" }
         /\ ~HasLine("PromptInit") )
        => mainpc = "failed" /\ HasLine("InvalidCharacter")

C4_Witness ==
    /\ config.content = << "q", "Q", "b" >>
    /\ mainpc = "failed"
    /\ \E n \in 1..Len(log) :
        log[n].kind = "InvalidCharacter" /\ log[n].arg = << "Q" >>

\* C5: once validation has succeeded with thread count N (the given count, or
\* the detected one when none is given), exactly N threads are spawned, their
\* thread identifiers are 0..N-1, each used once, and every thread gets the
\* same content string, placement and language index.
ResolvedThreads ==
    IF config.num_threads = None THEN detected_threads ELSE config.num_threads

C5_SpawnsExactlyN ==
    /\ mainpc \in { "spawn", "run_prompt" } =>
        /\ threads = ResolvedThreads
        /\ Len(workers) = i
        /\ i <= threads
        /\ \A k \in Live :
            /\ workers[k].thread = k - 1
            /\ workers[k].content = prefix
            /\ workers[k].placement = config.placement
            /\ workers[k].language = config.language
    /\ mainpc = "run_prompt" =>
        /\ Len(workers) = threads
        /\ { workers[k].thread : k \in Live } = 0..(threads - 1)

C5_Witness ==
    /\ mainpc = "run_prompt"
    /\ Len(workers) = 2
    /\ workers[1].thread = 0
    /\ workers[2].thread = 1

\* C6: a thread treats its iteration as a match exactly when the address
\* starts with (Prefix), ends with (Suffix) or contains (Anywhere) the content
\* string it was given, compared character by character.
C6_MatchIffRelation ==
    \A k \in Live :
        workers[k].address # << >> =>
            /\ workers[k].valid <=>
                Relation(workers[k].placement, workers[k].address, workers[k].content)
            /\ workers[k].pc \in { "ReportFound", "ReportKey", "ReportSeed", "Terminated" }
                => workers[k].valid
            /\ ~workers[k].valid => workers[k].pc = "Increment"

C6_Witness ==
    \E k \in Live :
        /\ workers[k].placement = "Anywhere"
        /\ workers[k].valid
        /\ workers[k].pc = "ReportFound"
        /\ ~IsPrefix(workers[k].address, workers[k].content)
        /\ ~IsSuffix(workers[k].address, workers[k].content)

\* C7: an iteration is reported exactly when its address matches; the report
\* names the thread, the matching address and that keypair's private key, is
\* complete before the thread starts its next iteration, and every matching
\* keypair is reported once.
C7_ReportedOncePerMatch ==
    \A k \in Live :
        LET r == ReportsBy(k)
            w == workers[k]
            founds == w.found - (IF w.pc = "ReportFound" THEN 1 ELSE 0)
            keys == w.found - (IF w.pc \in { "ReportFound", "ReportKey" } THEN 1 ELSE 0)
        IN  /\ Len(r) = founds + keys
            /\ \A n \in 1..Len(r) :
                IF n % 2 = 1
                THEN /\ r[n].kind = "Found"
                     /\ r[n].arg[1] = w.thread
                     /\ Relation(w.placement, r[n].arg[2], w.content)
                ELSE /\ r[n].kind = "PrivateKey"
                     /\ \E kp \in KeyPairs :
                            /\ r[n - 1].arg[2] = ToAddress(kp)
                            /\ r[n].arg = << ToHex(kp.private_key) >>
            /\ (w.pc \in { "ReportKey", "ReportSeed", "Terminated" }
                    \/ (w.pc = "Increment" /\ w.valid))
                => r[2 * founds - 1].arg[2] = w.address
            /\ (w.pc \in { "ReportSeed", "Terminated" } \/ (w.pc = "Increment" /\ w.valid))
                => r[2 * keys].arg = << ToHex(w.keypair.private_key) >>

C7_Witness ==
    \E k \in Live :
        /\ workers[k].pc = "Generating"
        /\ workers[k].iters = 2
        /\ workers[k].found = 1
        /\ Len(ReportsBy(k)) = 2

\* C8: there is no cross-thread cancellation: a thread that has not ended can
\* always take its next step whatever the other threads have found or however
\* they ended (up to the model's cap on generated keypairs), a step of one
\* thread leaves every other thread as it was, and no step changes the
\* parameters of a thread.
C8_Enabled ==
    \A k \in Live :
        ( /\ ProcessAlive
          /\ workers[k].pc # "Terminated"
          /\ workers[k].pc = "Generating" => Generated(workers) < MaxIters )
        => ENABLED WorkerStep(k)

C8_Frame ==
    \A k \in Live :
        /\ (\E j \in Live : j # k /\ WorkerStep(j)) => workers'[k] = workers[k]
        /\ k \in DOMAIN workers' =>
            /\ workers'[k].content = workers[k].content
            /\ workers'[k].placement = workers[k].placement
            /\ workers'[k].language = workers[k].language
            /\ workers'[k].thread = workers[k].thread

C8_NoCrossWorkerCancellation == [](C8_Enabled) /\ [][C8_Frame]_vars

C8_Witness ==
    \E j, k \in Live :
        /\ j # k
        /\ workers[j].pc = "Terminated"
        /\ workers[k].pc = "Generating"
        /\ workers[k].iters = 0
        /\ ENABLED WorkerStep(k)

\* C9: a thread goes back to the top of its loop after an iteration that did
\* not match and after one that matched and was reported with its mnemonic
\* words; nothing stops a thread after a match, and a thread ends only on a
\* match whose mnemonic encoding failed.
C9_Step ==
    \A k \in Live \cap DOMAIN workers' :
        /\ workers'[k].pc = "Terminated" =>
            workers'[k].valid /\ ~Supported(workers'[k].language)
        /\ workers'[k] # workers[k] =>
            /\ (workers[k].pc = "Generating" /\ ~workers'[k].valid)
                => workers'[k].pc = "Increment"
            /\ (workers[k].pc = "ReportSeed" /\ Supported(workers[k].language))
                => workers'[k].pc = "Increment"
            /\ workers[k].pc = "Increment" => workers'[k].pc = "Generating"

C9_WorkerLoopsBack == [][C9_Step]_vars

C9_Witness ==
    \E k \in Live :
        /\ workers[k].pc = "Generating"
        /\ workers[k].found = 2
        /\ Len(ReportsBy(k)) = 4

\* C10: the snapshot reads the counter and resets it in one step, so no
\* increment is lost or counted twice: the values the snapshots returned plus
\* the counter add up to the increments made, which while the process runs
\* are the increments of its threads.
RECURSIVE Incs(_)
Incs(ws) == IF ws = << >> THEN 0 ELSE Head(ws).incs + Incs(Tail(ws))

C10_NoIncrementLost ==
    /\ snapshot_total + RATE_COUNTER = increments
    /\ ProcessAlive => Incs(workers) = increments
    /\ \A c \in Callers : sppc[c] = "swapped" => counter[c] <= increments

C10_Witness ==
    /\ snapshot_total = 1
    /\ RATE_COUNTER = 1
    /\ \E c \in Callers : sppc[c] = "swapped"

\* C11: a snapshot whose counter value K is 0, or whose elapsed time T is 0
\* milliseconds, hands a rate of zero to the display, never NaN or infinity
\* (K = 0 with T > 0, K > 0 with T = 0, K = 0 with T = 0); no snapshot hands
\* over NaN or infinity.
HasSample == sample.at # NotInit

C11_ZeroRateOnNoData ==
    HasSample =>
        /\ sample.hashrate.kind = "finite"
        /\ (sample.counter = 0 \/ sample.elapsed = 0) => sample.hashrate.num = 0

\* C12: a snapshot that observes K > 0 increments and an elapsed time T > 0
\* since the previous snapshot reports K divided by T in seconds, and then
\* stores the current time, from which the next snapshot measures its T.
C12_Step ==
    \A c \in Callers :
        (sppc[c] = "swapped" /\ sppc'[c] = "done") =>
            LET K == counter[c]
                T == now' - last_time
            IN  /\ HasSample => last_time = sample.at
                /\ sample'.counter = K
                /\ sample'.elapsed = T
                /\ sample'.at = now'
                /\ last_time' = now'
                /\ (K > 0 /\ T > 0) =>
                    /\ sample'.hashrate.kind = "finite"
                    /\ sample'.hashrate.num * T = 1000 * K * sample'.hashrate.den

C12_RateIsCountOverSeconds == [][C12_Step]_vars

C12_Witness ==
    /\ sppc[1] = "done"
    /\ sppc[2] = "done"
    /\ sample.counter = 1
    /\ sample.elapsed = 2000
    /\ sample.hashrate = [kind |-> "finite", num |-> 1, den |-> 2]
    /\ last_time = 4000

\* C13: snapshot computations never race: at most one call of the closure is
\* between taking the mutex and dropping it, and a call that is about to swap
\* the counter, or to read the elapsed time and store the new time, holds the
\* mutex.
InSection(c) == sppc[c] \in { "locked", "swapped" }

C13_SnapshotsExclusive ==
    /\ Cardinality({ c \in Callers : InSection(c) }) <= 1
    /\ locked <=> \E c \in Callers : InSection(c)

C13_Witness ==
    /\ sppc[1] = "swapped"
    /\ sppc[2] = "waiting"
    /\ locked

\* C14: the program uses at least 1 and at most 65535 threads: when main
\* reaches its spawn loop, the count the loop runs to (the number of threads
\* it starts) lies in 1..65535.
C14_ThreadCountInRange ==
    mainpc = "spawn" => threads \in 1..MAX_THREADS

\* C15: the status line runs independently of the search: the threads can go
\* on whatever the closure does, and the prompt ending or failing never stops
\* or ends a thread: every step leaves each thread in place, and only a
\* thread's own step changes it.
C15_Step ==
    \A k \in Live :
        /\ k \in DOMAIN workers'
        /\ workers'[k] # workers[k] => WorkerStep(k)

C15_StatusLineIndependent == [][C15_Step]_vars

\* C16: under Prefix placement the string every thread tests with starts-with
\* is the address prefix, the separator and the user's content; under Suffix
\* and Anywhere it is the user's content unchanged.
C16_TestedString ==
    \A k \in Live :
        workers[k].content =
            IF workers[k].placement = "Prefix"
            THEN Append(PREFIX_ADDRESS, SEPARATOR) \o config.content
            ELSE config.content

C16_Witness ==
    \E k \in Live :
        /\ workers[k].placement = "Prefix"
        /\ workers[k].content = << "x", "e", "l", ":", "q" >>
        /\ workers[k].pc = "ReportFound"
        /\ workers[k].address = << "x", "e", "l", ":", "q", "p" >>

\* C17: a thread count given on the command line is used as given; a count
\* that is not given resolves to the detected parallelism, or to 1 with a
\* warning when the detection fails, so it is positive and never rejected.
PastResolve ==
    mainpc \in { "compose", "spawn", "run_prompt", "returned" } \/ HasLine("ThreadCount")

C17_ThreadCountResolution ==
    /\ PastResolve =>
        /\ config.num_threads # None => threads = config.num_threads
        /\ config.num_threads = None =>
            /\ threads >= 1
            /\ IF HasLine("DetectFailed")
               THEN threads = 1
               ELSE threads \in DetectResults \ { DetectErr }
    /\ config.num_threads = None => ~HasLine("ThreadCount")
    /\ HasLine("ThreadCount") => config.num_threads = 0

C17_Witness ==
    /\ config.num_threads = None
    /\ HasLine("DetectFailed")
    /\ mainpc = "run_prompt"
    /\ threads = 1
    /\ Len(workers) = 1

\* C18: a step of a search thread writes no shared state but the attempt
\* counter (and the log): it leaves the last-snapshot time, the mutex, the
\* search parameters and every other thread unchanged, and the last-snapshot
\* time is written only by a call of the prompt closure.
C18_Step ==
    /\ \A k \in Live :
        WorkerStep(k) =>
            /\ UNCHANGED << last_time, locked, sample, config, prefix, threads >>
            /\ workers'[k].content = workers[k].content
            /\ workers'[k].placement = workers[k].placement
            /\ workers'[k].language = workers[k].language
            /\ \A j \in Live : j # k => workers'[j] = workers[j]
    /\ last_time' # last_time => \E c \in Callers : SnapStep(c)

C18_WorkersWriteOnlyCounter == [][C18_Step]_vars

C18_Witness ==
    /\ HasSample
    /\ last_time = 2000
    /\ RATE_COUNTER = 1
    /\ \E k \in Live : workers[k].incs = 2

\* C19: the report of a match is emitted as a unit: in the log, the address
\* line of a thread is followed by its private key line, and that by its seed
\* line, with no line of another thread in between.
C19_ReportIsAUnit ==
    \A n \in 1..(Len(log) - 1) :
        (log[n + 1].by # MainThread) =>
            /\ log[n].kind = "Found" =>
                log[n + 1].by = log[n].by /\ log[n + 1].kind = "PrivateKey"
            /\ (log[n].kind = "PrivateKey" /\ Supported(config.language)) =>
                log[n + 1].by = log[n].by /\ log[n + 1].kind = "Seed"

====
